---- MODULE Spec2Model ----
(***************************************************************************)
(* Operator runners of MagicBowen/optest: custom_square, add_custom and    *)
(* matmul_runner.  Each reads raw tensors from binary files, applies a     *)
(* kernel and writes the result.                                           *)
(*                                                                         *)
(* Fixed-width integers (int64_t, size_t, int32_t) are little-endian       *)
(* tuples of bytes, so that arithmetic keeps the width of the C++ type:    *)
(* every operation is taken modulo 2^(8 * number of bytes), which is what  *)
(* signed overflow yields on the two's-complement targets the runners are  *)
(* built for.  A text is the sequence of its character codes.  A file is   *)
(* the sequence of its bytes.  An exception is a value: the statement that *)
(* throws hands it to the handler of main.                                 *)
(***************************************************************************)
EXTENDS Integers, Sequences, FiniteSets, TLC

VARIABLES
    text,       \* SpecText: the argument of extract_numbers / parse_shapes
    nums,       \* SpecText: the result of extract_numbers(text)
    parsed,     \* SpecText: the outcome of parse_shapes(text)
    tpc,        \* SpecText: position of the driver
    runner,     \* which executable runs: its name as printed by the handler
    argv,       \* the command line: a sequence of <<flag, value>> pairs
    env,        \* the file system's behaviour towards the output path
    fs,         \* the files: path -> [exists, bytes]
    pc,         \* position within main
    opts,       \* Options
    dtypeT,     \* the element type T selected by the dtype dispatch
    shape,      \* MatmulShape
    a,          \* first decoded operand
    b,          \* second decoded operand
    out,        \* output buffer
    exc,        \* the exception in flight: <<>> or <<what>>
    stderr,     \* lines written to std::cerr
    status,     \* <<>> while running, then <<exit status>>
    steps       \* the statements of main executed so far

tvars == <<text, nums, parsed, tpc>>
rvars == <<runner, argv, env, fs, pc, opts, dtypeT, shape, a, b, out, exc, stderr, status, steps>>
vars == <<tvars, rvars>>

(***************************************************************************)
(* Bounds of the model.                                                    *)
(***************************************************************************)
MaxTextLen == 4     \* free-form texts: every string over Alphabet up to this length
MaxNums == 7        \* shape lists: up to this many numbers joined by separators
MaxElems == 2       \* tensors: every sequence over ElemPool up to this many elements

(***************************************************************************)
(* Widths of the C++ types.                                                *)
(***************************************************************************)
Int64Bytes == 8     \* sizeof(int64_t), sizeof(size_t)
ByteRange == 256    \* values of one byte
SignBit == 128      \* the sign bit within the most significant byte

RECURSIVE WordOfNat(_, _)
\* the w-byte representation of a natural number v (v < 2^31)
WordOfNat(v, w) ==
    IF w = 0 THEN <<>> ELSE <<v % ByteRange>> \o WordOfNat(v \div ByteRange, w - 1)

Zero64 == WordOfNat(0, Int64Bytes)

RECURSIVE MulSmallAdd(_, _, _)
\* (x * c + carry) modulo 2^(8 * Len(x)), for a small multiplier c
MulSmallAdd(x, c, carry) ==
    IF x = <<>> THEN <<>>
    ELSE LET t == Head(x) * c + carry
         IN  <<t % ByteRange>> \o MulSmallAdd(Tail(x), c, t \div ByteRange)

RECURSIVE AddWord(_, _, _)
\* (x + y + carry) modulo 2^(8 * Len(x))
AddWord(x, y, carry) ==
    IF x = <<>> THEN <<>>
    ELSE LET t == Head(x) + Head(y) + carry
         IN  <<t % ByteRange>> \o AddWord(Tail(x), Tail(y), t \div ByteRange)

Front(x) == SubSeq(x, 1, Len(x) - 1)

Range(x) == {x[i] : i \in 1 .. Len(x)}

RECURSIVE MulWord(_, _)
\* (x * y) modulo 2^(8 * Len(x)): the product of two's-complement operands
MulWord(x, y) ==
    IF x = <<>> THEN <<>>
    ELSE AddWord(MulSmallAdd(x, Head(y), 0), <<0>> \o MulWord(Front(x), Tail(y)), 0)

IsZeroWord(x) == \A i \in 1 .. Len(x) : x[i] = 0

\* the sign of a two's-complement word
IsNegative(x) == x[Len(x)] >= SignBit

(***************************************************************************)
(* Character codes.                                                        *)
(***************************************************************************)
Char0 == 48         \* '0'
Char9 == 57         \* '9'
Radix == 10

Ascii ==
    ("0" :> 48) @@ ("1" :> 49) @@ ("2" :> 50) @@ ("3" :> 51) @@ ("4" :> 52) @@
    ("5" :> 53) @@ ("6" :> 54) @@ ("7" :> 55) @@ ("8" :> 56) @@ ("9" :> 57) @@
    ("," :> 44) @@ ("/" :> 47) @@ (":" :> 58) @@ (" " :> 32) @@ ("[" :> 91) @@
    ("]" :> 93) @@ ("=" :> 61) @@ ("m" :> 109) @@ ("k" :> 107) @@ ("n" :> 110) @@
    ("x" :> 120)

\* the text whose characters are the given one-character strings
Str(cs) == [i \in 1 .. Len(cs) |-> Ascii[cs[i]]]

(***************************************************************************)
(* extract_numbers (matmul_runner.cpp)                                     *)
(***************************************************************************)
IsDigit(c) == c >= Char0 /\ c <= Char9

\* current * 10 + (c - '0') in int64_t
Accumulate(current, c) == MulSmallAdd(current, Radix, c - Char0)

RECURSIVE ScanFrom(_, _, _, _, _)
\* the loop over the characters of the text, from position i on, and the
\* flush after the loop
ScanFrom(t, i, current, in_number, values) ==
    IF i > Len(t)
    THEN IF in_number THEN Append(values, current) ELSE values
    ELSE IF IsDigit(t[i])
         THEN ScanFrom(t, i + 1, Accumulate(current, t[i]), TRUE, values)
         ELSE IF in_number
              THEN ScanFrom(t, i + 1, Zero64, FALSE, Append(values, current))
              ELSE ScanFrom(t, i + 1, current, in_number, values)

extract_numbers(t) == ScanFrom(t, 1, Zero64, FALSE, <<>>)

(***************************************************************************)
(* parse_shapes (matmul_runner.cpp).  An exception is the value            *)
(* Throw(what); a normal return is Return(value).                          *)
(***************************************************************************)
Throw(what) == [ok |-> FALSE, what |-> what]
Return(v) == [ok |-> TRUE, value |-> v]

MinShapeNums == 4   \* nums.size() < 4
OutShapeNums == 6   \* nums.size() >= 6

MatmulShape(m, k, n) == [m |-> m, k |-> k, n |-> n]

\* ShapeOf with the result-shape check made only from the seventh number on
ShapeOf_LateOutCheck(ns) ==
    IF ns[2] # ns[3]
    THEN Throw(<<"shape mismatch: input0 k != input1 k">>)
    ELSE IF Len(ns) > OutShapeNums /\ (ns[5] # ns[1] \/ ns[6] # ns[4])
         THEN Throw(<<"output shape does not match matmul result">>)
         ELSE Return(MatmulShape(ns[1], ns[2], ns[4]))

ShapeOf(ns) ==
    LET m == ns[1]
        k == ns[2]
        k2 == ns[3]
        n == ns[4]
    IN  IF k # k2
        THEN Throw(<<"shape mismatch: input0 k != input1 k">>)
        ELSE IF Len(ns) >= OutShapeNums /\ (ns[5] # m \/ ns[6] # n)
             THEN Throw(<<"output shape does not match matmul result">>)
             ELSE Return(MatmulShape(m, k, n))

parse_shapes(shapes_json) ==
    LET ns == extract_numbers(shapes_json)
    IN  IF Len(ns) < MinShapeNums
        THEN Throw(<<"shapes must include at least two input shapes">>)
        ELSE ShapeOf(ns)

(***************************************************************************)
(* Element types.  Both instantiations, float and int32_t, have 4-byte     *)
(* elements; an element is the tuple of its bytes as they lie in the file. *)
(***************************************************************************)
FloatBytes == 4     \* sizeof(float)
Int32Bytes == 4     \* sizeof(int32_t)

\* static_cast<T>(0): the same bytes in both types
ZeroElem == WordOfNat(0, Int32Bytes)

RECURSIVE Pow2(_)
Pow2(e) == IF e = 0 THEN 1 ELSE 2 * Pow2(e - 1)

RECURSIVE Log2(_)
\* the position of the leading bit of v >= 1
Log2(v) == IF v < 2 THEN 0 ELSE 1 + Log2(v \div 2)

(***************************************************************************)
(* IEEE-754 binary32.  The arithmetic is modelled where it is exact: on    *)
(* the non-negative integers below 2^24.  Any other operand or result      *)
(* gives FloatOther, a value that stands for the floats outside this       *)
(* range.                                                                  *)
(***************************************************************************)
FloatOther == <<-1, -1, -1, -1>>

F32Exp(x) == (x[4] % 128) * 2 + x[3] \div 128
F32Man(x) == (x[3] % 128) * 65536 + x[2] * 256 + x[1]

F32IsNat(x) ==
    /\ x # FloatOther
    /\ x[4] < 128
    /\ \/ x = ZeroElem
       \/ /\ F32Exp(x) >= 127
          /\ F32Exp(x) <= 150
          /\ (Pow2(23) + F32Man(x)) % Pow2(150 - F32Exp(x)) = 0

F32ToNat(x) ==
    IF x = ZeroElem THEN 0 ELSE (Pow2(23) + F32Man(x)) \div Pow2(150 - F32Exp(x))

F32OfNat(v) ==
    IF v = 0 THEN ZeroElem
    ELSE LET e == Log2(v)
             man == (v - Pow2(e)) * Pow2(23 - e)
             ex == 127 + e
         IN  <<man % 256, (man \div 256) % 256, (man \div 65536) + (ex % 2) * 128, ex \div 2>>

FloatMul(x, y) ==
    IF /\ F32IsNat(x)
       /\ F32IsNat(y)
       /\ (F32ToNat(x) = 0 \/ F32ToNat(y) <= (Pow2(24) - 1) \div F32ToNat(x))
    THEN F32OfNat(F32ToNat(x) * F32ToNat(y))
    ELSE FloatOther

FloatAdd(x, y) ==
    IF F32IsNat(x) /\ F32IsNat(y) /\ F32ToNat(x) + F32ToNat(y) < Pow2(24)
    THEN F32OfNat(F32ToNat(x) + F32ToNat(y))
    ELSE FloatOther

\* a * b and a + b in the element type T
ElemMul(T, x, y) == IF T = "float" THEN FloatMul(x, y) ELSE MulWord(x, y)
ElemAdd(T, x, y) == IF T = "float" THEN FloatAdd(x, y) ELSE AddWord(x, y, 0)

(***************************************************************************)
(* read_file<T> and write_file<T>.  A file is [exists, bytes].             *)
(***************************************************************************)
NoFile == [exists |-> FALSE, bytes |-> <<>>]
File(bytes) == [exists |-> TRUE, bytes |-> bytes]

RECURSIVE Flatten(_)
\* the bytes of a buffer
Flatten(data) == IF data = <<>> THEN <<>> ELSE Head(data) \o Flatten(Tail(data))

\* sizeof(T)
Sizeof(T) == IF T = "float" THEN FloatBytes ELSE Int32Bytes

\* the vector of count elements of T filled with the bytes read
Elements(T, bytes, count) ==
    [i \in 1 .. count |-> SubSeq(bytes, Sizeof(T) * (i - 1) + 1, Sizeof(T) * i)]

\* read_file without the alignment check: the length is rounded down
read_file_NoAlignCheck(T, path, file) ==
    IF ~file.exists
    THEN Throw(<<"failed to open ", path>>)
    ELSE Return(Elements(T, file.bytes, Len(file.bytes) \div Sizeof(T)))

read_file(T, path, file) ==
    IF ~file.exists
    THEN Throw(<<"failed to open ", path>>)
    ELSE LET size == Len(file.bytes)
             got == SubSeq(file.bytes, 1, size)
         IN  IF size % Sizeof(T) # 0
             THEN Throw(<<"file size not aligned to dtype for ", path>>)
             ELSE IF Len(got) # size
                  THEN Throw(<<"failed to read ", path>>)
                  ELSE Return(Elements(T, got, size \div Sizeof(T)))

\* The output path fails in one of these ways, given by env.fault: "mkdir"
\* (its directory cannot be created), "open" (it cannot be opened for
\* writing), "write" (the bytes cannot all be written), or "none".

\* std::filesystem::create_directories(parent_path)
create_directories(fault) ==
    IF fault = "mkdir"
    THEN Throw(<<"filesystem error: cannot create directories">>)
    ELSE Return(<<>>)

\* OpenAndWrite without std::ios::trunc: bytes beyond the new content stay
OpenAndWrite_NoTrunc(path, data, file, fault) ==
    IF fault = "open"
    THEN {[file |-> file, res |-> Throw(<<"failed to open ", path, " for write">>)]}
    ELSE {[file |-> File(Flatten(data)
                         \o SubSeq(file.bytes, Len(Flatten(data)) + 1, Len(file.bytes))),
           res |-> Return(<<>>)]}

\* the file after std::ofstream(path, binary | trunc) and file.write of the
\* bytes, and the outcome: every outcome is a pair [file, res]
OpenAndWrite(path, data, file, fault) ==
    IF fault = "open"
    THEN {[file |-> file, res |-> Throw(<<"failed to open ", path, " for write">>)]}
    ELSE IF fault = "write" /\ Flatten(data) # <<>>
         THEN {[file |-> File(SubSeq(Flatten(data), 1, n)),
                res |-> Throw(<<"failed to write ", path>>)] :
                   n \in 0 .. (Len(Flatten(data)) - 1)}
         ELSE {[file |-> File(Flatten(data)), res |-> Return(<<>>)]}

\* write_file of matmul_runner.cpp: creates the parent directory first
write_file(path, data, file, fault) ==
    IF ~create_directories(fault).ok
    THEN {[file |-> file, res |-> create_directories(fault)]}
    ELSE OpenAndWrite(path, data, file, fault)

(***************************************************************************)
(* Kernels.                                                                *)
(***************************************************************************)
\* a word that is below 2^24, and its value
IsSmall(x) == \A i \in 4 .. Len(x) : x[i] = 0
SmallVal(x) == x[1] + 256 * x[2] + 65536 * x[3]

square(T, input) == [i \in 1 .. Len(input) |-> ElemMul(T, input[i], input[i])]

add_vectors(T, va, vb) ==
    IF Len(va) # Len(vb)
    THEN Throw(<<"input sizes differ">>)
    ELSE Return([i \in 1 .. Len(va) |-> ElemAdd(T, va[i], vb[i])])

RECURSIVE DotFrom(_, _, _, _, _, _, _, _)
\* the loop over kk of matmul_kernel, from kk on, with accumulator acc
DotFrom(T, va, vb, i, j, k, n, st) ==
    IF st.kk = k THEN st.acc
    ELSE DotFrom(T, va, vb, i, j, k, n,
                 [kk |-> st.kk + 1,
                  acc |-> ElemAdd(T, st.acc,
                                  ElemMul(T, va[i * k + st.kk + 1], vb[st.kk * n + j + 1]))])

\* whether every a[..], b[..], c[..] that matmul_kernel touches lies inside
\* its buffer; m, k, n are size_t.  With m and n positive the loops write
\* c[0 .. m*n-1] and, with k positive too, read a[0 .. m*k-1] and b[0 .. k*n-1].
KernelInBounds(m, k, n, lenA, lenB, lenC) ==
    \/ IsZeroWord(m)
    \/ IsZeroWord(n)
    \/ /\ IsSmall(m) /\ SmallVal(m) <= lenC
       /\ IsSmall(n) /\ SmallVal(n) <= lenC
       /\ SmallVal(m) * SmallVal(n) <= lenC
       /\ \/ IsZeroWord(k)
          \/ /\ IsSmall(k) /\ SmallVal(k) <= lenA
             /\ SmallVal(m) * SmallVal(k) <= lenA
             /\ SmallVal(k) * SmallVal(n) <= lenB

\* the buffer c after matmul_kernel, when all its accesses are in bounds
matmul_kernel(T, va, vb, vc, m, k, n) ==
    IF IsZeroWord(m) \/ IsZeroWord(n) THEN vc
    ELSE [x \in 1 .. Len(vc) |->
            IF x <= SmallVal(m) * SmallVal(n)
            THEN DotFrom(T, va, vb, (x - 1) \div SmallVal(n), (x - 1) % SmallVal(n),
                         SmallVal(k), SmallVal(n), [kk |-> 0, acc |-> ZeroElem])
            ELSE vc[x]]

\* std::vector<T>(count, 0): fails when count elements cannot be allocated
AllocZero(count) ==
    IF count[Int64Bytes] >= 32
    THEN Throw(<<"cannot create std::vector larger than max_size()">>)
    ELSE IF ~IsSmall(count)
         THEN Throw(<<"std::bad_alloc">>)
         ELSE Return([i \in 1 .. SmallVal(count) |-> ZeroElem])

(***************************************************************************)
(* parse_args.  Only the options that decide the control flow vary; the    *)
(* paths keep their defaults.                                              *)
(***************************************************************************)
In0 == "input0.bin"
In1 == "input1.bin"
Out0 == "output0.bin"

DefaultOptions == [dtype |-> "float32", shapes_json |-> <<>>]

RECURSIVE parse_args_from(_, _, _)
parse_args_from(run, args, opt) ==
    IF args = <<>> THEN opt
    ELSE IF Len(Head(args)) < 2 THEN parse_args_from(run, Tail(args), opt)
    ELSE LET flag == Head(args)[1]
             value == Head(args)[2]
         IN  IF flag = "--dtype" \/ flag = "-t"
             THEN parse_args_from(run, Tail(args), [opt EXCEPT !.dtype = value])
             ELSE IF flag = "--shapes" /\ run = "matmul_runner"
                  THEN parse_args_from(run, Tail(args), [opt EXCEPT !.shapes_json = value])
                  ELSE parse_args_from(run, Tail(args), opt)

parse_args(run, args) == parse_args_from(run, args, DefaultOptions)

(***************************************************************************)
(* Inputs of the text specification.                                       *)
(***************************************************************************)
Alphabet == {Ascii["1"], Ascii["2"], Ascii[","], Ascii["/"], Ascii[":"]}

RECURSIVE SeqsUpTo(_, _)
SeqsUpTo(S, n) ==
    IF n = 0 THEN {<<>>}
    ELSE LET shorter == SeqsUpTo(S, n - 1)
         IN  shorter \cup {Append(s, x) : s \in {t \in shorter : Len(t) = n - 1}, x \in S}

FreeTexts == SeqsUpTo(Alphabet, MaxTextLen)

\* digit runs that do not fit in int64_t, or whose products do not
Two62 == Str(<<"4","6","1","1","6","8","6","0","1","8","4","2","7","3","8","7","9","0","4">>)
Two63 == Str(<<"9","2","2","3","3","7","2","0","3","6","8","5","4","7","7","5","8","0","8">>)
Max64 == Str(<<"9","2","2","3","3","7","2","0","3","6","8","5","4","7","7","5","8","0","7">>)
Two64 == Str(<<"1","8","4","4","6","7","4","4","0","7","3","7","0","9","5","5","1","6","1","6">>)
Two64m1 == Str(<<"1","8","4","4","6","7","4","4","0","7","3","7","0","9","5","5","1","6","1","5">>)

SmallRuns == {Str(<<"1">>), Str(<<"2">>)}
LongRuns == {Two63, Max64, Two64, Two64m1}

RECURSIVE Join(_, _)
\* the runs joined by a separator
Join(runs, sep) ==
    IF runs = <<>> THEN <<>>
    ELSE IF Len(runs) = 1 THEN runs[1]
    ELSE runs[1] \o sep \o Join(Tail(runs), sep)

ListTexts == {Join(rs, Str(<<",">>)) : rs \in SeqsUpTo(SmallRuns, MaxNums)}

LongTexts ==
    {Join(<<r, Str(<<"2">>), Str(<<"2">>), s>>, Str(<<"x">>)) : r \in LongRuns, s \in LongRuns \cup SmallRuns}
    \cup LongRuns

ExampleTexts ==
    { Str(<<"1",",","2",",","3",",","4">>),
      Str(<<"[","[","1",",","2","]",",","[","3",",","4","]","]">>),
      Str(<<"m","=","1"," ","k","=","2"," ","k","=","3"," ","n","=","4">>),
      Str(<<"0","0","1","2","x","0">>) }

Texts == FreeTexts \cup ListTexts \cup LongTexts \cup ExampleTexts

NoValue == <<"none">>

\* no runner is running
RunnerIdle ==
    /\ runner = "none"
    /\ argv = <<>>
    /\ env = [fault |-> "none", old |-> NoFile]
    /\ fs = (In0 :> NoFile) @@ (In1 :> NoFile) @@ (Out0 :> NoFile)
    /\ pc = "idle"
    /\ opts = DefaultOptions
    /\ dtypeT = "none"
    /\ shape = MatmulShape(Zero64, Zero64, Zero64)
    /\ a = <<>>
    /\ b = <<>>
    /\ out = <<>>
    /\ exc = <<>>
    /\ stderr = <<>>
    /\ status = <<>>
    /\ steps = <<>>

TextInit ==
    /\ RunnerIdle
    /\ text \in Texts
    /\ nums = NoValue
    /\ parsed = NoValue
    /\ tpc = "start"

Extract ==
    /\ tpc = "start"
    /\ nums' = extract_numbers(text)
    /\ tpc' = "extracted"
    /\ UNCHANGED <<text, parsed, rvars>>

Parse ==
    /\ tpc = "extracted"
    /\ parsed' = parse_shapes(text)
    /\ tpc' = "parsed"
    /\ UNCHANGED <<text, nums, rvars>>

TextNext == Extract \/ Parse

SpecText == TextInit /\ [][TextNext]_vars

(***************************************************************************)
(* Inputs of the runners.                                                  *)
(***************************************************************************)
Runners == {"custom_square", "add_custom", "matmul_runner"}

DtypeArgs ==
    { <<>>,
      << <<"--dtype", "int32">> >>,
      << <<"-t", "float32">> >>,
      << <<"--dtype", "float64">> >>,
      << <<"--dtype", "Float32">> >>,
      << <<"--dtype", "">> >>,
      << <<"--dtype", "float64">>, <<"-t", "int32">>, <<"--dtype">> >> }

ShapeTexts ==
    { Str(<<"1",",","2",",","3">>),
      Str(<<"1",",","1",",","2",",","1">>),
      Str(<<"2","x","2",",","2","x","2">>),
      Str(<<"1","x","2",",","2","x","1">>),
      Str(<<"1","x","0",",","0","x","2">>),
      Str(<<"1","x","1",",","1","x","1",",","2","x","1">>),
      Join(<<Two62, Str(<<"4">>), Str(<<"4">>), Str(<<"0">>)>>, Str(<<",">>)),
      Join(<<Two62, Str(<<"0">>), Str(<<"0">>), Str(<<"4">>)>>, Str(<<",">>)),
      Join(<<Two62, Str(<<"4">>), Str(<<"4">>), Str(<<"1">>)>>, Str(<<",">>)),
      Join(<<Two64m1, Two64m1, Two64m1, Two64m1>>, Str(<<",">>)) }

ShapeArgs == {<<>>} \cup {<< <<"--shapes", t>> >> : t \in ShapeTexts}

\* the element 2.0 as float, which is 2^30 as int32_t
ElemPool == {F32OfNat(2)}

Tensors == SeqsUpTo(ElemPool, MaxElems)

ExampleA == <<F32OfNat(1), F32OfNat(0), F32OfNat(0), F32OfNat(1)>>
ExampleB == <<F32OfNat(5), F32OfNat(6), F32OfNat(7), F32OfNat(8)>>

\* a file of 3 bytes
Misaligned == {File(<<1, 0, 0>>)}

InputFiles == {NoFile} \cup Misaligned \cup {File(Flatten(t)) : t \in Tensors}

\* what is at the output path before the run, and how the path fails
OutputEnvs ==
    { [fault |-> "none", old |-> NoFile],
      [fault |-> "none", old |-> File(<<9, 9, 9, 9, 9, 9, 9, 9, 9>>)],
      [fault |-> "mkdir", old |-> NoFile],
      [fault |-> "open", old |-> File(<<9, 9, 9, 9, 9, 9, 9, 9, 9>>)],
      [fault |-> "write", old |-> File(<<9, 9, 9, 9, 9, 9, 9, 9, 9>>)] }

Files(f0, f1, fo) == (In0 :> f0) @@ (In1 :> f1) @@ (Out0 :> fo)

TextIdle ==
    /\ text = <<>>
    /\ nums = NoValue
    /\ parsed = NoValue
    /\ tpc = "idle"

Init ==
    /\ TextIdle
    /\ runner \in Runners
    /\ \E d \in DtypeArgs, s \in ShapeArgs :
           argv = d \o (IF runner = "matmul_runner" THEN s ELSE <<>>)
    /\ env \in OutputEnvs
    /\ \E f0 \in InputFiles \cup {File(Flatten(ExampleA))},
          f1 \in InputFiles \cup {File(Flatten(ExampleB))} :
           fs = Files(f0, IF runner = "custom_square" THEN NoFile ELSE f1, env.old)
    /\ pc = "main"
    /\ opts = DefaultOptions
    /\ dtypeT = "none"
    /\ shape = MatmulShape(Zero64, Zero64, Zero64)
    /\ a = <<>>
    /\ b = <<>>
    /\ out = <<>>
    /\ exc = <<>>
    /\ stderr = <<>>
    /\ status = <<>>
    /\ steps = <<>>

(***************************************************************************)
(* main, one action per statement.  A statement that throws leaves the     *)
(* exception in exc and control at the handler.                            *)
(***************************************************************************)
Did(step) == steps' = Append(steps, step)

Raise(what) ==
    /\ exc' = <<what>>
    /\ pc' = "catch"

\* ParseArgs with the dtype dispatch next in every runner
ParseArgs_SkipShapes ==
    /\ pc = "main"
    /\ opts' = parse_args(runner, argv)
    /\ pc' = IF runner = "matmul_runner" THEN "dispatch" ELSE "create_directories"
    /\ Did("parse_args")
    /\ UNCHANGED <<tvars, runner, argv, env, fs, dtypeT, shape, a, b, out, exc, stderr, status>>

\* Options opts = parse_args(argc, argv);
ParseArgs ==
    /\ pc = "main"
    /\ opts' = parse_args(runner, argv)
    /\ pc' = IF runner = "matmul_runner" THEN "require_shapes" ELSE "create_directories"
    /\ Did("parse_args")
    /\ UNCHANGED <<tvars, runner, argv, env, fs, dtypeT, shape, a, b, out, exc, stderr, status>>

\* if (opts.shapes_json.empty()) throw ...          (matmul_runner)
RequireShapes ==
    /\ pc = "require_shapes"
    /\ IF opts.shapes_json = <<>>
       THEN Raise(<<"--shapes is required">>)
       ELSE pc' = "parse_shapes" /\ UNCHANGED exc
    /\ Did("require_shapes")
    /\ UNCHANGED <<tvars, runner, argv, env, fs, opts, dtypeT, shape, a, b, out, stderr, status>>

\* MatmulShape shape = parse_shapes(opts.shapes_json);   (matmul_runner)
ParseShapes ==
    /\ pc = "parse_shapes"
    /\ LET r == parse_shapes(opts.shapes_json)
       IN  IF r.ok
           THEN shape' = r.value /\ pc' = "dispatch" /\ UNCHANGED exc
           ELSE Raise(r.what) /\ UNCHANGED shape
    /\ Did("parse_shapes")
    /\ UNCHANGED <<tvars, runner, argv, env, fs, opts, dtypeT, a, b, out, stderr, status>>

\* std::filesystem::create_directories(...) in main   (custom_square, add_custom)
CreateDirectories ==
    /\ pc = "create_directories"
    /\ LET r == create_directories(env.fault)
       IN  IF r.ok
           THEN pc' = "dispatch" /\ UNCHANGED exc
           ELSE Raise(r.what)
    /\ Did("create_directories")
    /\ UNCHANGED <<tvars, runner, argv, env, fs, opts, dtypeT, shape, a, b, out, stderr, status>>

\* DispatchDtype with "Float32" taken for "float32"
DispatchDtype_IgnoreCase ==
    /\ pc = "dispatch"
    /\ IF opts.dtype \in {"float32", "Float32"}
       THEN dtypeT' = "float" /\ pc' = "read0" /\ UNCHANGED exc
       ELSE IF opts.dtype = "int32"
            THEN dtypeT' = "int32_t" /\ pc' = "read0" /\ UNCHANGED exc
            ELSE Raise(<<"unsupported dtype: ", opts.dtype>>) /\ UNCHANGED dtypeT
    /\ Did("dispatch")
    /\ UNCHANGED <<tvars, runner, argv, env, fs, opts, shape, a, b, out, stderr, status>>

\* if (opts.dtype == "float32") ... else if (opts.dtype == "int32") ... else throw
DispatchDtype ==
    /\ pc = "dispatch"
    /\ IF opts.dtype = "float32"
       THEN dtypeT' = "float" /\ pc' = "read0" /\ UNCHANGED exc
       ELSE IF opts.dtype = "int32"
            THEN dtypeT' = "int32_t" /\ pc' = "read0" /\ UNCHANGED exc
            ELSE Raise(<<"unsupported dtype: ", opts.dtype>>) /\ UNCHANGED dtypeT
    /\ Did("dispatch")
    /\ UNCHANGED <<tvars, runner, argv, env, fs, opts, shape, a, b, out, stderr, status>>

\* auto a = read_file<T>(opts.input0);
ReadInput0 ==
    /\ pc = "read0"
    /\ LET r == read_file(dtypeT, In0, fs[In0])
       IN  IF r.ok
           THEN /\ a' = r.value
                /\ pc' = IF runner = "custom_square" THEN "kernel" ELSE "read1"
                /\ UNCHANGED exc
           ELSE Raise(r.what) /\ UNCHANGED a
    /\ Did("read0")
    /\ UNCHANGED <<tvars, runner, argv, env, fs, opts, dtypeT, shape, b, out, stderr, status>>

\* auto b = read_file<T>(opts.input1);                (add_custom, matmul_runner)
ReadInput1 ==
    /\ pc = "read1"
    /\ LET r == read_file(dtypeT, In1, fs[In1])
       IN  IF r.ok
           THEN /\ b' = r.value
                /\ pc' = IF runner = "matmul_runner" THEN "check_sizes" ELSE "kernel"
                /\ UNCHANGED exc
           ELSE Raise(r.what) /\ UNCHANGED b
    /\ Did("read1")
    /\ UNCHANGED <<tvars, runner, argv, env, fs, opts, dtypeT, shape, a, out, stderr, status>>

\* count_a, count_b: static_cast<size_t>(shape.m * shape.k), (shape.k * shape.n)
count_a(sh) == MulWord(sh.m, sh.k)
count_b(sh) == MulWord(sh.k, sh.n)
count_out(sh) == MulWord(sh.m, sh.n)

\* a.size(), as size_t
VecSize(v) == WordOfNat(Len(v), Int64Bytes)

\* if (a.size() != count_a || b.size() != count_b) throw ...   (matmul_runner)
CheckSizes ==
    /\ pc = "check_sizes"
    /\ IF VecSize(a) # count_a(shape) \/ VecSize(b) # count_b(shape)
       THEN Raise(<<"input sizes do not match shapes">>)
       ELSE pc' = "alloc" /\ UNCHANGED exc
    /\ Did("check_sizes")
    /\ UNCHANGED <<tvars, runner, argv, env, fs, opts, dtypeT, shape, a, b, out, stderr, status>>

\* std::vector<T> out(static_cast<size_t>(shape.m * shape.n), 0);   (matmul_runner)
AllocOut ==
    /\ pc = "alloc"
    /\ LET r == AllocZero(count_out(shape))
       IN  IF r.ok
           THEN out' = r.value /\ pc' = "kernel" /\ UNCHANGED exc
           ELSE Raise(r.what) /\ UNCHANGED out
    /\ Did("alloc")
    /\ UNCHANGED <<tvars, runner, argv, env, fs, opts, dtypeT, shape, a, b, stderr, status>>

\* auto out = square<T>(input);                        (custom_square)
RunSquare ==
    /\ pc = "kernel"
    /\ runner = "custom_square"
    /\ out' = square(dtypeT, a)
    /\ pc' = "write"
    /\ Did("kernel")
    /\ UNCHANGED <<tvars, runner, argv, env, fs, opts, dtypeT, shape, a, b, exc, stderr, status>>

\* auto out = add_vectors<T>(a, b);                    (add_custom)
RunAdd ==
    /\ pc = "kernel"
    /\ runner = "add_custom"
    /\ LET r == add_vectors(dtypeT, a, b)
       IN  IF r.ok
           THEN out' = r.value /\ pc' = "write" /\ UNCHANGED exc
           ELSE Raise(r.what) /\ UNCHANGED out
    /\ Did("kernel")
    /\ UNCHANGED <<tvars, runner, argv, env, fs, opts, dtypeT, shape, a, b, stderr, status>>

\* matmul_kernel<T>(a.data(), b.data(), out.data(), m, k, n);   (matmul_runner)
\* An access outside a buffer is undefined behaviour; the extents that lead
\* to one are of the order of 2^62 elements, so the process is killed.
RunMatmul ==
    /\ pc = "kernel"
    /\ runner = "matmul_runner"
    /\ IF KernelInBounds(shape.m, shape.k, shape.n, Len(a), Len(b), Len(out))
       THEN /\ out' = matmul_kernel(dtypeT, a, b, out, shape.m, shape.k, shape.n)
            /\ pc' = "write"
            /\ UNCHANGED status
       ELSE /\ pc' = "killed"
            /\ status' = <<139>>
            /\ UNCHANGED out
    /\ Did("kernel")
    /\ UNCHANGED <<tvars, runner, argv, env, fs, opts, dtypeT, shape, a, b, exc, stderr>>

\* write_file<T>(opts.output, out);
WriteOutput ==
    /\ pc = "write"
    /\ \E o \in IF runner = "matmul_runner"
                THEN write_file(Out0, out, fs[Out0], env.fault)
                ELSE OpenAndWrite(Out0, out, fs[Out0], env.fault) :
           /\ fs' = [fs EXCEPT ![Out0] = o.file]
           /\ IF o.res.ok
              THEN pc' = "return" /\ UNCHANGED exc
              ELSE Raise(o.res.what)
    /\ Did("write")
    /\ UNCHANGED <<tvars, runner, argv, env, opts, dtypeT, shape, a, b, out, stderr, status>>

\* catch (const std::exception& ex) { std::cerr << ... ; return 1; }
Catch ==
    /\ pc = "catch"
    /\ stderr' = Append(stderr, <<runner, " failed: ", exc[1]>>)
    /\ status' = <<1>>
    /\ pc' = "exited"
    /\ UNCHANGED <<tvars, runner, argv, env, fs, opts, dtypeT, shape, a, b, out, exc, steps>>

\* return 0;
ReturnZero ==
    /\ pc = "return"
    /\ status' = <<0>>
    /\ pc' = "exited"
    /\ UNCHANGED <<tvars, runner, argv, env, fs, opts, dtypeT, shape, a, b, out, exc, stderr, steps>>

Next ==
    \/ ParseArgs
    \/ RequireShapes
    \/ ParseShapes
    \/ CreateDirectories
    \/ DispatchDtype
    \/ ReadInput0
    \/ ReadInput1
    \/ CheckSizes
    \/ AllocOut
    \/ RunSquare
    \/ RunAdd
    \/ RunMatmul
    \/ WriteOutput
    \/ Catch
    \/ ReturnZero

Spec == Init /\ [][Next]_vars

(***************************************************************************)
(* The tensor codec on its own: write_file<T> and read_file<T> of          *)
(* matmul_runner.cpp applied to one path, in any order.                    *)
(***************************************************************************)
CodecElems == {<<1, 2, 3, 4>>, F32OfNat(2), <<255, 255, 255, 255>>}

CodecBuffers == SeqsUpTo(CodecElems, MaxElems)

CodecEnvs ==
    OutputEnvs \cup
    { [fault |-> "none", old |-> File(<<>>)],
      [fault |-> "none", old |-> File(<<1, 0, 0>>)],
      [fault |-> "none", old |-> File(<<1, 2, 3, 4, 5, 6, 7, 8>>)],
      [fault |-> "write", old |-> NoFile] }

CodecInit ==
    /\ TextIdle
    /\ runner = "codec"
    /\ argv = <<>>
    /\ env \in CodecEnvs
    /\ fs = Files(NoFile, NoFile, env.old)
    /\ pc = "codec"
    /\ opts = DefaultOptions
    /\ dtypeT \in {"float", "int32_t"}
    /\ shape = MatmulShape(Zero64, Zero64, Zero64)
    /\ a = <<>>
    /\ b = <<>>
    /\ out \in CodecBuffers
    /\ exc = <<>>
    /\ stderr = <<>>
    /\ status = <<>>
    /\ steps = <<>>

\* write_file<T>(path, out)
Encode ==
    /\ pc = "codec"
    /\ steps = <<>>
    /\ \E o \in write_file(Out0, out, fs[Out0], env.fault) :
           /\ fs' = [fs EXCEPT ![Out0] = o.file]
           /\ exc' = IF o.res.ok THEN <<>> ELSE <<o.res.what>>
           /\ Did(IF o.res.ok THEN "written" ELSE "write failed")
    /\ UNCHANGED <<tvars, runner, argv, env, pc, opts, dtypeT, shape, a, b, out, stderr, status>>

\* a = read_file<T>(path)
Decode ==
    /\ pc = "codec"
    /\ LET r == read_file(dtypeT, Out0, fs[Out0])
       IN  /\ a' = IF r.ok THEN r.value ELSE <<>>
           /\ exc' = IF r.ok THEN <<>> ELSE <<r.what>>
    /\ pc' = "decoded"
    /\ Did("read")
    /\ UNCHANGED <<tvars, runner, argv, env, fs, opts, dtypeT, shape, b, out, stderr, status>>

CodecNext == Encode \/ Decode

SpecCodec == CodecInit /\ [][CodecNext]_vars

(***************************************************************************)
(* Reference notions for the claims about the shape parser.                *)
(***************************************************************************)
DigitCodes == {Ascii[d] : d \in {"0", "1", "2", "3", "4", "5", "6", "7", "8", "9"}}

\* the positions where a maximal run of digits starts
RunStarts(t) ==
    {i \in 1 .. Len(t) : t[i] \in DigitCodes /\ (i = 1 \/ t[i - 1] \notin DigitCodes)}

\* the last position of the maximal run that starts at s
RunEnd(t, s) ==
    CHOOSE j \in s .. Len(t) :
        /\ \A p \in s .. j : t[p] \in DigitCodes
        /\ (j = Len(t) \/ t[j + 1] \notin DigitCodes)

\* the i-th maximal run of digits, left to right
NthRun(t, i) ==
    LET s == CHOOSE x \in RunStarts(t) : Cardinality({y \in RunStarts(t) : y < x}) = i - 1
    IN  SubSeq(t, s, RunEnd(t, s))

RECURSIVE StripZeros(_)
\* a run without its leading zeros (one digit is always kept)
StripZeros(run) ==
    IF Len(run) > 1 /\ Head(run) = Ascii["0"] THEN StripZeros(Tail(run)) ELSE run

RECURSIVE DivSmall(_, _, _)
\* quotient and remainder of an unsigned word by a small divisor
DivSmall(x, d, rem) ==
    IF x = <<>> THEN [q |-> <<>>, r |-> rem]
    ELSE LET cur == rem * 256 + x[Len(x)]
             rest == DivSmall(Front(x), d, cur % d)
         IN  [q |-> Append(rest.q, cur \div d), r |-> rest.r]

RECURSIVE DecimalDigits(_)
DecimalDigits(x) ==
    IF IsZeroWord(x) THEN <<>>
    ELSE LET qr == DivSmall(x, 10, 0)
         IN  Append(DecimalDigits(qr.q), Ascii["0"] + qr.r)

\* the decimal numeral of a non-negative word
Decimal(x) == IF IsZeroWord(x) THEN <<Ascii["0"]>> ELSE DecimalDigits(x)

\* the word is the decimal value of the run
IsValueOf(x, run) == ~IsNegative(x) /\ Decimal(x) = StripZeros(run)

IsShapeFormatError(r) ==
    ~r.ok /\ r.what = <<"shapes must include at least two input shapes">>

IsShapeMismatchError(r) ==
    ~r.ok /\ r.what \in { <<"shape mismatch: input0 k != input1 k">>,
                          <<"output shape does not match matmul result">> }

\* C1: parse_shapes decides on nums = extract_numbers(text): fewer than 4
\* numbers is the shape-format error; otherwise nums[1] != nums[2] (0-based)
\* is the shape-mismatch error; otherwise 6 or more numbers with
\* (nums[4], nums[5]) != (nums[0], nums[3]) is the shape-mismatch error;
\* otherwise the parse succeeds with (m, k, n) = (nums[0], nums[1], nums[3]).
\* Numbers from index 6 on play no part, and a fifth number alone is ignored.
C1_ParseDecision ==
    tpc = "parsed" =>
        /\ Len(nums) < 4 => IsShapeFormatError(parsed)
        /\ Len(nums) >= 4 /\ nums[2] # nums[3] => IsShapeMismatchError(parsed)
        /\ Len(nums) >= 6 /\ nums[2] = nums[3] /\ <<nums[5], nums[6]>> # <<nums[1], nums[4]>>
               => IsShapeMismatchError(parsed)
        /\ Len(nums) >= 4 /\ nums[2] = nums[3]
               /\ (Len(nums) >= 6 => <<nums[5], nums[6]>> = <<nums[1], nums[4]>>)
               => /\ parsed.ok
                  /\ parsed.value = [m |-> nums[1], k |-> nums[2], n |-> nums[4]]
        /\ Len(nums) = 5 /\ nums[2] = nums[3] => parsed.ok

\* a parse of seven numbers that succeeds: the result-shape check was made
\* on the fifth and sixth, and the seventh, which differs from m, is ignored
C1_Witness ==
    /\ tpc = "parsed"
    /\ Len(nums) = 7
    /\ parsed.ok
    /\ nums[1] # nums[4]
    /\ nums[7] # nums[1]

\* C2: extract_numbers returns one value per maximal run of digits, in the
\* order of the runs, each the decimal value of its run; other characters
\* only separate runs, and a text without digits yields the empty sequence.
C2_OneValuePerRun ==
    tpc # "start" =>
        /\ Len(nums) = Cardinality(RunStarts(text))
        /\ \A i \in 1 .. Len(nums) : IsValueOf(nums[i], NthRun(text, i))

\* C6: every integer extract_numbers produces is non-negative, and so is
\* every dimension of a shape parse_shapes returns, for every text.
C6_NonNegative ==
    /\ tpc # "start" => \A i \in 1 .. Len(nums) : ~IsNegative(nums[i])
    /\ tpc = "parsed" /\ parsed.ok =>
           /\ ~IsNegative(parsed.value.m)
           /\ ~IsNegative(parsed.value.k)
           /\ ~IsNegative(parsed.value.n)

(***************************************************************************)
(* Reference notions for the claims about the runners.                     *)
(***************************************************************************)
Finished == pc \in {"exited", "killed"}

\* the kinds of error, by the message the exception carries
IsSizeMismatch(e) ==
    e[1] \in { "file size not aligned to dtype for ",
               "input sizes do not match shapes",
               "input sizes differ" }

IsUnsupportedDtype(e) == e[1] = "unsupported dtype: "

IsShapeError(e) ==
    e[1] \in { "--shapes is required",
               "shapes must include at least two input shapes",
               "shape mismatch: input0 k != input1 k",
               "output shape does not match matmul result" }

Supported == {"float32", "int32"}

\* the last value given for the dtype flag on the command line
RECURSIVE GivenDtype(_, _)
GivenDtype(args, tag) ==
    IF args = <<>> THEN tag
    ELSE GivenDtype(Tail(args),
                    IF Len(Head(args)) = 2 /\ Head(args)[1] \in {"--dtype", "-t"}
                    THEN Head(args)[2] ELSE tag)

Tag == GivenDtype(argv, "float32")

\* the shape text given on the command line (empty when there is none)
RECURSIVE GivenShapes(_, _)
GivenShapes(args, t) ==
    IF args = <<>> THEN t
    ELSE GivenShapes(Tail(args),
                     IF Len(Head(args)) = 2 /\ Head(args)[1] = "--shapes"
                     THEN Head(args)[2] ELSE t)

\* fewer than four digit runs, or second and third run differ, or a fifth
\* and sixth run that differ from the first and fourth
ShapeTextBad(t) ==
    LET runs == [i \in 1 .. Cardinality(RunStarts(t)) |-> StripZeros(NthRun(t, i))]
    IN  \/ Len(runs) < 4
        \/ runs[2] # runs[3]
        \/ Len(runs) >= 6 /\ (runs[5] # runs[1] \/ runs[6] # runs[4])

ShapeMissingOrInvalid == ShapeTextBad(GivenShapes(argv, <<>>))

\* the position of a step in the order a runner follows
Rank(order, step) == CHOOSE i \in 1 .. Len(order) : order[i] = step

InOrder(order) ==
    /\ \A i \in 1 .. Len(steps) : \E j \in 1 .. Len(order) : order[j] = steps[i]
    /\ \A i, j \in 1 .. Len(steps) : i < j => Rank(order, steps[i]) < Rank(order, steps[j])

\* C3 as stated: options, then the dtype tag, then (matmul) the shape spec,
\* then decoding, the kernel, encoding; in the matmul runner an unsupported
\* dtype with a missing or invalid shape spec fails as unsupported dtype.
C3_DtypeBeforeShape ==
    /\ InOrder(<<"parse_args", "create_directories", "dispatch", "require_shapes",
                 "parse_shapes", "read0", "read1", "check_sizes", "alloc", "kernel", "write">>)
    /\ runner = "matmul_runner" /\ pc = "exited" /\ Tag \notin Supported /\ ShapeMissingOrInvalid
           => IsUnsupportedDtype(exc[1])

\* C3 as amended: options, then (matmul) the shape spec, then the dtype tag,
\* then decoding, the kernel, encoding; in the matmul runner the shape spec
\* is parsed before the dtype tag is resolved, so an unsupported dtype with a
\* missing or invalid shape spec fails with the shape error.
C3_ShapeBeforeDtype ==
    /\ InOrder(<<"parse_args", "create_directories", "require_shapes", "parse_shapes",
                 "dispatch", "read0", "read1", "check_sizes", "alloc", "kernel", "write">>)
    /\ runner = "matmul_runner" /\ pc = "exited" /\ Tag \notin Supported /\ ShapeMissingOrInvalid
           => IsShapeError(exc[1]) /\ status = <<1>>
    /\ runner = "matmul_runner" /\ pc = "exited" /\ Tag \notin Supported /\ ~ShapeMissingOrInvalid
           => IsUnsupportedDtype(exc[1])

\* a matmul run that ended on a missing or invalid shape spec although its
\* dtype tag is unsupported too
C3_Witness ==
    /\ runner = "matmul_runner"
    /\ pc = "exited"
    /\ Tag \notin Supported
    /\ GivenShapes(argv, <<>>) # <<>>
    /\ ShapeMissingOrInvalid
    /\ IsShapeError(exc[1])

\* the size condition of the claim, over the integers: len = x * y for
\* int64_t x and y, where len is a small natural number
Negate(x) == AddWord([i \in 1 .. Len(x) |-> 255 - x[i]], WordOfNat(1, Len(x)), 0)
Magnitude(x) == IF IsNegative(x) THEN Negate(x) ELSE x

ProductIs(x, y, len) ==
    IF IsZeroWord(x) \/ IsZeroWord(y) THEN len = 0
    ELSE /\ IsNegative(x) = IsNegative(y)
         /\ IsSmall(Magnitude(x)) /\ SmallVal(Magnitude(x)) <= len
         /\ IsSmall(Magnitude(y)) /\ SmallVal(Magnitude(y)) <= len
         /\ SmallVal(Magnitude(x)) * SmallVal(Magnitude(y)) = len

SizesMatchShape == ProductIs(shape.m, shape.k, Len(a)) /\ ProductIs(shape.k, shape.n, Len(b))

\* C4: size validation precedes every write.  In the matmul runner the
\* invocation fails with the size-mismatch error unless a.length = m*k and
\* b.length = k*n; in the add runner, unless both operands have equal
\* length.  On such a failure the output file is as it was before the run.
C4_SizeValidation ==
    /\ runner = "matmul_runner" /\ "check_sizes" \in Range(steps) /\ ~SizesMatchShape
           => pc \in {"catch", "exited"} /\ exc = << <<"input sizes do not match shapes">> >>
    /\ runner = "add_custom" /\ "kernel" \in Range(steps) /\ Len(a) # Len(b)
           => pc \in {"catch", "exited"} /\ exc = << <<"input sizes differ">> >>
    /\ exc \in { << <<"input sizes do not match shapes">> >>, << <<"input sizes differ">> >> }
           => fs[Out0] = env.old /\ "write" \notin Range(steps)

RECURSIVE RefDot(_, _, _, _, _, _)
\* sum over p in 0 .. k-1 of a[i*k+p] * b[p*n+j], accumulated in T from p = 0
RefDot(T, i, j, k, n, p) ==
    IF p = 0 THEN ZeroElem
    ELSE ElemAdd(T, RefDot(T, i, j, k, n, p - 1),
                 ElemMul(T, a[i * k + (p - 1) + 1], b[(p - 1) * n + j + 1]))

\* the bytes of the product of a and b for small non-negative m, k, n
RefProductBytes(T, m, k, n) ==
    Flatten([x \in 1 .. (m * n) |-> RefDot(T, (x - 1) \div n, (x - 1) % n, k, n, k)])

DimsSmall ==
    /\ IsSmall(shape.m) /\ SmallVal(shape.m) <= 4
    /\ IsSmall(shape.k) /\ SmallVal(shape.k) <= 4
    /\ IsSmall(shape.n) /\ SmallVal(shape.n) <= 4

\* C5: for every shape (m, k, n) and operands a of length m*k and b of
\* length k*n, the matmul runner writes a buffer of m*n elements with
\* c[i*n+j] = sum over p of a[i*k+p] * b[p*n+j], accumulated in T; when
\* k = 0 every element is 0.
C5_MatmulResult ==
    runner = "matmul_runner" /\ Finished /\ "check_sizes" \in Range(steps)
        /\ SizesMatchShape /\ env.fault = "none"
        => /\ status = <<0>>
           /\ DimsSmall
           /\ fs[Out0] = File(RefProductBytes(dtypeT, SmallVal(shape.m), SmallVal(shape.k),
                                              SmallVal(shape.n)))

\* C9 as stated: the tag is matched exactly against "float32" and "int32";
\* any other tag makes the invocation fail with the unsupported-dtype error
\* carrying the tag, without decoding an input or writing the output file.
C9_UnsupportedAlwaysReported ==
    /\ "dispatch" \in Range(steps) /\ pc # "catch" /\ Tag = "float32" => dtypeT = "float"
    /\ "dispatch" \in Range(steps) /\ pc # "catch" /\ Tag = "int32" => dtypeT = "int32_t"
    /\ Finished /\ Tag \notin Supported
           => /\ exc = << <<"unsupported dtype: ", Tag>> >>
              /\ status = <<1>>
              /\ "read0" \notin Range(steps)
              /\ fs[Out0] = env.old

\* the steps before the dtype dispatch succeed: the shape spec in the matmul
\* runner, the creation of the output directory in the other two
ReachesDispatch ==
    IF runner = "matmul_runner" THEN ~ShapeMissingOrInvalid ELSE env.fault # "mkdir"

\* C9 as amended: the tag is matched exactly against "float32" and "int32";
\* any other tag makes the invocation fail without decoding an input or
\* writing the output file, and the failure is the unsupported-dtype error
\* carrying the tag unless an earlier step failed first: the shape spec in
\* the matmul runner, the output directory in the square and add runners.
C9_UnsupportedDtype ==
    /\ "dispatch" \in Range(steps) /\ Tag = "float32"
           => dtypeT = "float" /\ (pc = "catch" => steps[Len(steps)] # "dispatch")
    /\ "dispatch" \in Range(steps) /\ Tag = "int32"
           => dtypeT = "int32_t" /\ (pc = "catch" => steps[Len(steps)] # "dispatch")
    /\ Tag \notin Supported
           => /\ dtypeT = "none"
              /\ "read0" \notin Range(steps)
              /\ "write" \notin Range(steps)
              /\ a = <<>> /\ b = <<>>
              /\ fs[Out0] = env.old
              /\ pc # "killed"
              /\ pc = "exited" => status = <<1>>
              /\ pc = "exited" /\ ReachesDispatch => exc = << <<"unsupported dtype: ", Tag>> >>
              /\ pc = "exited" /\ ~ReachesDispatch => ~IsUnsupportedDtype(exc[1])

\* an add run that ended on the tag "Float32" with its inputs present
C9_Witness ==
    /\ pc = "exited"
    /\ runner = "add_custom"
    /\ Tag = "Float32"
    /\ exc = << <<"unsupported dtype: ", "Float32">> >>
    /\ fs[In0].exists

\* C10: the exit status is zero exactly when no error was raised; a raised
\* error reaches the handler unchanged, no further step runs, exactly one
\* line prefixed with the operator's name is written to the error stream and
\* the status is non-zero.
C10_ExitStatus ==
    /\ Finished => (status = <<0>> <=> exc = <<>>)
    /\ Finished /\ exc # <<>>
           => /\ stderr = << <<runner, " failed: ", exc[1]>> >>
              /\ status # <<0>>
    /\ exc = <<>> => stderr = <<>>
    /\ ~Finished => status = <<>>

(***************************************************************************)
(* Claims about the tensor codec.                                          *)
(***************************************************************************)
\* the file the last read_file was applied to
ReadFrom == fs[Out0]

\* C7: read_file<T> fails with the I/O error if the file cannot be opened;
\* otherwise with the size-mismatch error when the byte length is not a
\* multiple of sizeof(T); otherwise it returns byte_length / sizeof(T)
\* elements holding the file's bytes in order (an empty file gives an empty
\* buffer).  It never returns a buffer for a misaligned file.
C7_Decode ==
    pc = "decoded" =>
        /\ ~ReadFrom.exists => exc = << <<"failed to open ", Out0>> >>
        /\ ReadFrom.exists /\ Len(ReadFrom.bytes) % 4 # 0
               => exc = << <<"file size not aligned to dtype for ", Out0>> >> /\ a = <<>>
        /\ ReadFrom.exists /\ Len(ReadFrom.bytes) % 4 = 0
               => /\ exc = <<>>
                  /\ Len(a) * 4 = Len(ReadFrom.bytes)
                  /\ \A i \in 1 .. Len(a) : \A j \in 1 .. 4 :
                         a[i][j] = ReadFrom.bytes[4 * (i - 1) + j]

\* a read of the 3-byte file, refused
C7_Witness ==
    /\ pc = "decoded"
    /\ ReadFrom = File(<<1, 0, 0>>)
    /\ IsSizeMismatch(exc[1])

\* C8: a buffer of any length written with write_file<T> and read back with
\* read_file<T> from the same path comes back element for element, whatever
\* the file held before: write_file replaces the previous content.
C8_RoundTrip ==
    steps = <<"written", "read">> => exc = <<>> /\ a = out /\ Len(a) = Len(out)

\* a one-element buffer written over a 9-byte file and read back
C8_Witness ==
    /\ steps = <<"written", "read">>
    /\ env.old = File(<<9, 9, 9, 9, 9, 9, 9, 9, 9>>)
    /\ Len(out) = 1
    /\ a = out

====
